---- MODULE Spec2Model ----
(***************************************************************************)
(* Model of the marketplace synchronisation scripts seller.py (Ozon) and   *)
(* market.py (Yandex Market): the reconciliation functions create_stocks   *)
(* and create_prices, the splitter divide, the two main() drivers and the  *)
(* upload_stocks / upload_prices coroutines.                               *)
(*                                                                         *)
(* Texts that the code parses (quantities, prices) are sequences of        *)
(* one-character strings, so int() and price_conversion are computed the   *)
(* way the code computes them.  Offer codes are only compared, so they are *)
(* plain strings; feed fields are str values, on which str() returns its   *)
(* argument.                                                               *)
(***************************************************************************)
EXTENDS Integers, Sequences, FiniteSets, TLC

(***************************************************************************)
(* Bounds of the model.                                                    *)
(***************************************************************************)
\* longest feed handed to a reconciliation function
MaxFeed == 3
\* longest list handed to divide
MaxDivLen == 9
\* largest chunk size handed to divide
MaxN == 4

\* longest feed download_stock hands to an entry point
MaxMainFeed == 2
\* most pages one run of a pager asks for
MaxPages == 3
\* The page sizes and batch sizes of the code, scaled down so that catalogs
\* and payloads of a few entries take several pages and batches:
\* "limit": 1000 of seller.get_product_list
OzonPageLimit == 2
\* "limit": 200 of market.get_product_list
MarketPageLimit == 2
\* divide(stocks, 100) of seller.main and seller.upload_stocks
OzonStockBatch == 2
\* divide(prices, 900) of seller.main
OzonMainPriceBatch == 1
\* divide(prices, 1000) of seller.upload_prices
OzonUploadPriceBatch == 1
\* divide(stocks, 2000) of market.main and market.upload_stocks
MarketStockBatch == 2
\* divide(prices, 500) of market.upload_prices
MarketPriceBatch == 1

Codes == {"A", "B", "C"}

\* the catalogs an account can hold: the first identifiers of one listing
CatalogOrder == <<"A", "B", "C", "D", "E">>
Catalogs == { SubSeq(CatalogOrder, 1, k) : k \in 0..Len(CatalogOrder) }

Digits == {"0", "1", "2", "3", "4", "5", "6", "7", "8", "9"}

\* longest quantity text handed to the quantity policy on its own
MaxQtyLen == 3

\* quantity texts of the feed's quantity column: ">10", "1", "7", and the
\* empty cell (read_excel with keep_default_na=False gives "")
QtyTexts == { <<">", "1", "0">>, <<"1">>, <<"7">>, <<>> }

\* the characters of the quantity texts tried one by one
QtyChars == {">", "1", "0", "7", "-"}

\* price texts of the feed's price column: "1'250.00 r." and "n/a.00"
PriceTexts ==
    { <<"1", "'", "2", "5", "0", ".", "0", "0", " ", "r", ".">>,
      <<"n", "/", "a", ".", "0", "0">> }

\* longest price text handed to price_conversion on its own
MaxPriceLen == 3

\* the characters of the price texts tried one by one
PriceChars == {"0", "7", ".", ","}

\* the price texts of the docstring and of a feed with a thousands comma:
\* "24'570.00 r." and "1,234.56"
PriceExamples ==
    { <<"2", "4", "'", "5", "7", "0", ".", "0", "0", " ", "r", ".">>,
      <<"1", ",", "2", "3", "4", ".", "5", "6">> }

\* the accounts: the Ozon shop and the two Yandex Market campaigns
Targets == {"OZON", "FBS", "DBS"}

\* the two warehouses and the clock readings of market.create_stocks
Warehouses == {"W_FBS", "W_DBS"}
Dates == {"2023-08-13T19:50:21Z"}

RECURSIVE SeqsUpTo(_, _)
\* all sequences over S of length at most n
SeqsUpTo(S, n) ==
    IF n = 0 THEN { <<>> }
    ELSE LET shorter == SeqsUpTo(S, n - 1)
         IN  shorter \cup { Append(s, x) : s \in { t \in shorter : Len(t) = n - 1 }, x \in S }

\* the sequences over S without a repeated element
Distinct(s) == \A i, j \in DOMAIN s : s[i] = s[j] => i = j

(***************************************************************************)
(* Python built-ins used by the code.                                      *)
(***************************************************************************)
DigitValue(c) ==
    CASE c = "0" -> 0 [] c = "1" -> 1 [] c = "2" -> 2 [] c = "3" -> 3
      [] c = "4" -> 4 [] c = "5" -> 5 [] c = "6" -> 6 [] c = "7" -> 7
      [] c = "8" -> 8 [] c = "9" -> 9

RECURSIVE DecimalValue(_)
DecimalValue(text) ==
    IF text = <<>> THEN 0
    ELSE 10 * DecimalValue(SubSeq(text, 1, Len(text) - 1)) + DigitValue(text[Len(text)])

\* int(text): the decimal value of a non-empty, optionally signed digit
\* text; ValueError for every other text of the model's alphabet
PyInt(text) ==
    LET signed == text # <<>> /\ text[1] \in {"-", "+"}
        body   == IF signed THEN Tail(text) ELSE text
    IN  IF body # <<>> /\ \A i \in DOMAIN body : body[i] \in Digits
        THEN [ok |-> TRUE,
              v  |-> IF signed /\ text[1] = "-" THEN 0 - DecimalValue(body)
                     ELSE DecimalValue(body)]
        ELSE [ok |-> FALSE, v |-> 0]

\* x in lst
In(x, lst) == \E i \in DOMAIN lst : lst[i] = x

\* Remove with the deletion forgotten
RemoveNothing(lst, x) == lst

\* lst.remove(x): deletes the first occurrence of x (x is in lst)
Remove(lst, x) ==
    LET k == CHOOSE i \in DOMAIN lst :
                 lst[i] = x /\ \A j \in 1..(i - 1) : lst[j] # x
    IN  SubSeq(lst, 1, k - 1) \o SubSeq(lst, k + 1, Len(lst))

\* lst[i:j] for 0 <= i <= j: the slice is clamped to the end of lst
Slice(lst, i, j) ==
    SubSeq(lst, i + 1, IF j < Len(lst) THEN j ELSE Len(lst))

RECURSIVE RangeWhole(_, _, _)
\* Range that stops before a last step shorter than step
RangeWhole(start, stop, step) ==
    IF start + step > stop THEN <<>>
    ELSE <<start>> \o RangeWhole(start + step, stop, step)

RECURSIVE Range(_, _, _)
\* range(start, stop, step) for step > 0
Range(start, stop, step) ==
    IF start >= stop THEN <<>>
    ELSE <<start>> \o Range(start + step, stop, step)

(***************************************************************************)
(* divide                                                                  *)
(***************************************************************************)
\* list(divide(lst, n)): one slice lst[i : i + n] per i of range(0, len(lst), n)
divide(lst, n) ==
    LET r == Range(0, Len(lst), n)
    IN  [k \in DOMAIN r |-> Slice(lst, r[k], r[k] + n)]

(***************************************************************************)
(* create_stocks                                                           *)
(***************************************************************************)
\* Quantity without the rule for "1"
QuantityPlain(count) ==
    IF count = <<">", "1", "0">> THEN [ok |-> TRUE, v |-> 100]
    ELSE PyInt(count)

\* the quantity policy of create_stocks: ">10" is 100, "1" is 0, every
\* other text goes through int(), which raises ValueError on a text that
\* denotes no integer
Quantity(count) ==
    IF count = <<">", "1", "0">> THEN [ok |-> TRUE, v |-> 100]
    ELSE IF count = <<"1">> THEN [ok |-> TRUE, v |-> 0]
    ELSE PyInt(count)

RECURSIVE StocksLoop(_, _, _)
\* the loop over watch_remnants: a record whose code is in offer_ids adds
\* the pair <<code, stock>> and removes the code from offer_ids; the result
\* is the matched pairs, the mutated offer_ids, and the exception raised
StocksLoop(rest, ids, matched) ==
    IF rest = <<>> THEN [raised |-> "none", offer_ids |-> ids, matched |-> matched]
    ELSE LET watch == Head(rest)
         IN  IF ~In(watch.code, ids) THEN StocksLoop(Tail(rest), ids, matched)
             ELSE LET q == Quantity(watch.qty)
                  IN  IF ~q.ok
                      THEN [raised |-> "ValueError", offer_ids |-> ids, matched |-> matched]
                      ELSE StocksLoop(Tail(rest), Remove(ids, watch.code),
                                      Append(matched, <<watch.code, q.v>>))

\* StockPairs with the zero-filled identifiers put first
StockPairsZeroFirst(loop) ==
    [i \in DOMAIN loop.offer_ids |-> <<loop.offer_ids[i], 0>>] \o loop.matched

\* the pairs of the loop followed by <<offer_id, 0>> for what is left in
\* offer_ids
StockPairs(loop) ==
    loop.matched \o [i \in DOMAIN loop.offer_ids |-> <<loop.offer_ids[i], 0>>]

\* seller.create_stocks working on a copy of the list: the caller's list
\* is left as it was
seller_create_stocks_copy(remnants, ids) ==
    LET loop  == StocksLoop(remnants, ids, <<>>)
        pairs == StockPairs(loop)
    IN  [raised    |-> loop.raised,
         offer_ids |-> ids,
         ret       |-> IF loop.raised # "none" THEN <<>>
                       ELSE [i \in DOMAIN pairs |->
                               [offer_id |-> pairs[i][1], stock |-> pairs[i][2]]]]

\* seller.create_stocks(watch_remnants, offer_ids): ret is the returned
\* list (<<>> when it raises), offer_ids the caller's list afterwards
seller_create_stocks(remnants, ids) ==
    LET loop  == StocksLoop(remnants, ids, <<>>)
        pairs == StockPairs(loop)
    IN  [raised    |-> loop.raised,
         offer_ids |-> loop.offer_ids,
         ret       |-> IF loop.raised # "none" THEN <<>>
                       ELSE [i \in DOMAIN pairs |->
                               [offer_id |-> pairs[i][1], stock |-> pairs[i][2]]]]

\* market.create_stocks(watch_remnants, offer_ids, warehouse_id); date is
\* the text of utcnow() read before the loop
market_create_stocks(remnants, ids, warehouse_id, date) ==
    LET loop  == StocksLoop(remnants, ids, <<>>)
        pairs == StockPairs(loop)
    IN  [raised    |-> loop.raised,
         offer_ids |-> loop.offer_ids,
         ret       |-> IF loop.raised # "none" THEN <<>>
                       ELSE [i \in DOMAIN pairs |->
                               [sku         |-> pairs[i][1],
                                warehouseId |-> warehouse_id,
                                items       |-> << [count     |-> pairs[i][2],
                                                    type      |-> "FIT",
                                                    updatedAt |-> date] >>]]]

(***************************************************************************)
(* price_conversion and create_prices                                      *)
(***************************************************************************)
\* price.split(".") forgotten: the whole price text
WholeText(price) == price

\* price.split(".")[0]: the text before the first period (the whole text
\* when it has none)
BeforeFirstPeriod(price) ==
    IF \E i \in DOMAIN price : price[i] = "."
    THEN SubSeq(price, 1,
                (CHOOSE i \in DOMAIN price :
                     price[i] = "." /\ \A j \in 1..(i - 1) : price[j] # ".") - 1)
    ELSE price

\* re.sub("[^0-9]", "", text): text without its non-digit characters
DigitsOnly(text) == SelectSeq(text, LAMBDA c : c \in Digits)

price_conversion(price) == DigitsOnly(BeforeFirstPeriod(price))

RECURSIVE SellerPricesLoop(_, _, _)
\* seller.create_prices: one entry per feed record whose code is in
\* offer_ids; the price is the text price_conversion returns
SellerPricesLoop(rest, ids, prices) ==
    IF rest = <<>> THEN prices
    ELSE LET watch == Head(rest)
         IN  IF ~In(watch.code, ids) THEN SellerPricesLoop(Tail(rest), ids, prices)
             ELSE SellerPricesLoop(Tail(rest), ids,
                      Append(prices,
                             [auto_action_enabled |-> "UNKNOWN",
                              currency_code       |-> "RUB",
                              offer_id            |-> watch.code,
                              old_price           |-> "0",
                              price               |-> price_conversion(watch.price)]))

\* seller_create_prices with the membership test forgotten
seller_create_prices_all(remnants, ids) ==
    [raised    |-> "none",
     offer_ids |-> ids,
     ret       |-> SellerPricesLoop(remnants,
                                    [i \in DOMAIN remnants |-> remnants[i].code], <<>>)]

seller_create_prices(remnants, ids) ==
    [raised    |-> "none",
     offer_ids |-> ids,
     ret       |-> SellerPricesLoop(remnants, ids, <<>>)]

RECURSIVE MarketPricesLoop(_, _, _)
\* market.create_prices: the price value is int(price_conversion(...)),
\* which raises ValueError when no digit is left
MarketPricesLoop(rest, ids, prices) ==
    IF rest = <<>> THEN [raised |-> "none", prices |-> prices]
    ELSE LET watch == Head(rest)
         IN  IF ~In(watch.code, ids) THEN MarketPricesLoop(Tail(rest), ids, prices)
             ELSE LET value == PyInt(price_conversion(watch.price))
                  IN  IF ~value.ok THEN [raised |-> "ValueError", prices |-> prices]
                      ELSE MarketPricesLoop(Tail(rest), ids,
                               Append(prices,
                                      [id    |-> watch.code,
                                       price |-> [value      |-> value.v,
                                                  currencyId |-> "RUR"]]))

\* market_create_prices removing each matched identifier from the caller's
\* list, as create_stocks does
market_create_prices_removing(remnants, ids) ==
    LET loop == MarketPricesLoop(remnants, ids, <<>>)
    IN  [raised    |-> loop.raised,
         offer_ids |-> SelectSeq(ids, LAMBDA id :
                           \A i \in DOMAIN remnants : remnants[i].code # id),
         ret       |-> IF loop.raised # "none" THEN <<>> ELSE loop.prices]

market_create_prices(remnants, ids) ==
    LET loop == MarketPricesLoop(remnants, ids, <<>>)
    IN  [raised    |-> loop.raised,
         offer_ids |-> ids,
         ret       |-> IF loop.raised # "none" THEN <<>> ELSE loop.prices]

(***************************************************************************)
(* State.                                                                  *)
(***************************************************************************)
VARIABLES
    fn,              \* the function or entry point that runs
    mp,              \* its module: "seller" or "market"
    pc,              \* its position
    watch_remnants,  \* the feed records
    offer_ids,       \* the caller's identifier list
    ids_in,          \* the identifier list as it was handed over
    stocks,          \* the list create_stocks returned
    prices,          \* the list create_prices returned
    lst,             \* the list handed to divide
    n,               \* the chunk size handed to divide
    batches,         \* list(divide(lst, n))
    raised,          \* the exception that left the function, or "none"
    target,          \* the account the entry point works on
    catalog,         \* the identifiers each marketplace account holds
    page,            \* the cursor of the pager (0 is the empty cursor)
    product_list,    \* the items the pager has accumulated
    responses,       \* the page responses the running pager has received
    not_empty,       \* the non-zero entries upload_stocks returns
    next_batch,      \* the batch the submission loop is at
    requests,        \* the HTTP requests issued so far, with their outcome
    caught           \* the except clause of main that ran, or "none"

driverVars == << target, catalog, page, product_list, responses, not_empty, next_batch, requests, caught >>

vars == << fn, mp, pc, watch_remnants, offer_ids, ids_in, stocks, prices,
           lst, n, batches, raised, target, catalog, page, product_list, responses,
           not_empty, next_batch, requests, caught >>

(***************************************************************************)
(* The functions applied to inputs drawn from bounded sets.                *)
(***************************************************************************)
\* the identifier lists: every list of distinct codes
IdLists == { s \in SeqsUpTo(Codes, Cardinality(Codes)) : Distinct(s) }

\* create_stocks reads the code and the quantity of a record
StockFeeds ==
    SeqsUpTo([code : Codes, qty : QtyTexts,
              price : { <<"1", "'", "2", "5", "0", ".", "0", "0", " ", "r", ".">> }],
             MaxFeed)

\* one matched record carrying any quantity text
QuantityFeeds ==
    { << [code |-> "A", qty |-> q,
          price |-> <<"1", "'", "2", "5", "0", ".", "0", "0", " ", "r", ".">>] >> :
      q \in SeqsUpTo(QtyChars, MaxQtyLen) }

\* one matched record carrying any price text
PriceTextFeeds ==
    { << [code |-> "A", qty |-> <<"7">>, price |-> p] >> :
      p \in PriceExamples \cup SeqsUpTo(PriceChars, MaxPriceLen) }

\* create_prices reads the code and the price of a record
PriceFeeds == SeqsUpTo([code : Codes, qty : { <<"7">> }, price : PriceTexts], MaxFeed)

InitFn ==
    /\ pc = "call"
    /\ mp \in {"seller", "market"}
    /\ stocks = <<>> /\ prices = <<>> /\ batches = <<>> /\ raised = "none"
    /\ \/ /\ fn = "create_stocks"
          /\ \/ watch_remnants \in StockFeeds /\ offer_ids \in IdLists
             \/ watch_remnants \in QuantityFeeds /\ offer_ids = <<"A">>
          /\ lst = <<>> /\ n = 1
       \/ /\ fn = "create_prices"
          /\ \/ watch_remnants \in PriceFeeds /\ offer_ids \in IdLists
             \/ watch_remnants \in PriceTextFeeds /\ offer_ids = <<"A">>
          /\ lst = <<>> /\ n = 1
       \/ /\ fn = "divide"
          /\ mp = "seller"
          /\ watch_remnants = <<>> /\ offer_ids = <<>>
          /\ lst \in SeqsUpTo({1, 2}, MaxDivLen) /\ n \in 1..MaxN
    /\ ids_in = offer_ids
    /\ target = IF mp = "seller" THEN "OZON" ELSE "FBS"
    /\ catalog = [t \in Targets |-> <<>>]
    /\ page = 0 /\ product_list = <<>> /\ responses = <<>>
    /\ not_empty = <<>> /\ next_batch = 1
    /\ requests = <<>> /\ caught = "none"

\* stocks = create_stocks(watch_remnants, offer_ids[, warehouse_id])
CallCreateStocks ==
    /\ fn = "create_stocks" /\ pc = "call"
    /\ \E warehouse_id \in Warehouses, date \in Dates :
         LET r == IF mp = "seller" THEN seller_create_stocks(watch_remnants, offer_ids)
                  ELSE market_create_stocks(watch_remnants, offer_ids, warehouse_id, date)
         IN  /\ stocks' = r.ret
             /\ offer_ids' = r.offer_ids
             /\ raised' = r.raised
             /\ pc' = IF r.raised = "none" THEN "returned" ELSE "raised"
    /\ UNCHANGED << fn, mp, watch_remnants, ids_in, prices, lst, n, batches >>
    /\ UNCHANGED driverVars

\* prices = create_prices(watch_remnants, offer_ids)
CallCreatePrices ==
    /\ fn = "create_prices" /\ pc = "call"
    /\ LET r == IF mp = "seller" THEN seller_create_prices(watch_remnants, offer_ids)
                ELSE market_create_prices(watch_remnants, offer_ids)
       IN  /\ prices' = r.ret
           /\ offer_ids' = r.offer_ids
           /\ raised' = r.raised
           /\ pc' = IF r.raised = "none" THEN "returned" ELSE "raised"
    /\ UNCHANGED << fn, mp, watch_remnants, ids_in, stocks, lst, n, batches >>
    /\ UNCHANGED driverVars

\* batches = list(divide(lst, n))
CallDivide ==
    /\ fn = "divide" /\ pc = "call"
    /\ batches' = divide(lst, n)
    /\ pc' = "returned"
    /\ UNCHANGED << fn, mp, watch_remnants, offer_ids, ids_in, stocks, prices,
                    lst, n, raised >>
    /\ UNCHANGED driverVars

NextFn == CallCreateStocks \/ CallCreatePrices \/ CallDivide

SpecFn == InitFn /\ [][NextFn]_vars

(***************************************************************************)
(* The entry points: seller.main, market.main, and the coroutines          *)
(* upload_stocks and upload_prices of both modules when they are awaited.  *)
(***************************************************************************)
\* outcomes of an HTTP request: a success response, a non-success response
\* (raise_for_status raises HTTPError), a read timeout, a connection error
Statuses == {"ok", "HTTPError", "ReadTimeout", "ConnectionError"}

\* the rows download_stock can read: a quantity and a price text
MainRows ==
    { << <<"7">>, <<"1", "'", "2", "5", "0", ".", "0", "0", " ", "r", ".">> >>,
      << <<">", "1", "0">>, <<"1", "'", "2", "5", "0", ".", "0", "0", " ", "r", ".">> >>,
      << <<>>, <<"n", "/", "a", ".", "0", "0">> >> }

MainFeeds ==
    SeqsUpTo({ [code |-> c, qty |-> row[1], price |-> row[2]] :
                 c \in Codes, row \in MainRows }, MaxMainFeed)

Req(call, campaign, cursor, batch, status) ==
    [call |-> call, campaign |-> campaign, cursor |-> cursor, batch |-> batch,
     status |-> status]

\* the except clause of main that handles an exception
Clause(kind) ==
    IF kind \in {"ReadTimeout", "ConnectionError"} THEN kind ELSE "Exception"

\* an exception leaves the current statement: inside the try block of main
\* its except clause prints and main ends; elsewhere it leaves the entry
\* point
Raise(kind, in_try) ==
    /\ raised' = kind
    /\ caught' = IF in_try THEN Clause(kind) ELSE caught
    /\ pc' = IF in_try THEN "done" ELSE "raised"

Init ==
    /\ fn \in {"main", "upload_stocks", "upload_prices"}
    /\ mp \in {"seller", "market"}
    /\ target = IF mp = "seller" THEN "OZON" ELSE "FBS"
    /\ catalog \in [Targets -> Catalogs]
    /\ \A t \in Targets :
          ~( \/ mp = "seller" /\ t = "OZON"
             \/ mp = "market" /\ t = "FBS"
             \/ mp = "market" /\ fn = "main" /\ t = "DBS" ) => catalog[t] = <<>>
    /\ IF fn = "main" THEN watch_remnants = <<>> ELSE watch_remnants \in MainFeeds
    /\ pc = IF fn = "main" /\ mp = "market" THEN "download_stock" ELSE "get_offer_ids"
    /\ offer_ids = <<>> /\ ids_in = <<>> /\ stocks = <<>> /\ prices = <<>>
    /\ lst = <<>> /\ n = 1 /\ batches = <<>> /\ raised = "none"
    /\ page = 0 /\ product_list = <<>> /\ responses = <<>>
    /\ not_empty = <<>> /\ next_batch = 1
    /\ requests = <<>> /\ caught = "none"

\* watch_remnants = download_stock(); in market.main it is outside the try
DownloadStock ==
    /\ fn = "main" /\ pc = "download_stock"
    /\ \E status \in Statuses :
         /\ requests' = Append(requests, Req("download_stock", "none", 0, <<>>, status))
         /\ IF status = "ok"
            THEN /\ watch_remnants' \in MainFeeds
                 /\ pc' = IF mp = "seller" THEN "create_stocks" ELSE "get_offer_ids"
                 /\ UNCHANGED << raised, caught >>
            ELSE /\ Raise(status, mp = "seller")
                 /\ UNCHANGED watch_remnants
    /\ UNCHANGED << fn, mp, offer_ids, ids_in, stocks, prices, lst, n, batches,
                    target, catalog, page, product_list, responses, not_empty, next_batch >>

\* the position a cursor stands for
Offset(cursor) == IF cursor = 0 THEN 0 ELSE cursor - 1

\* the identifiers of one page of an account's listing
PageCodes(t, cursor, limit) ==
    LET from == Offset(cursor)
        to   == IF from + limit < Len(catalog[t]) THEN from + limit ELSE Len(catalog[t])
    IN  SubSeq(catalog[t], from + 1, to)

\* the requests get_product_list has issued for the current account
PagesRequested ==
    Cardinality({ k \in DOMAIN requests :
                    requests[k].call = "get_product_list"
                    /\ requests[k].campaign = target })

\* the statement that follows offer_ids = get_offer_ids(...)
AfterOfferIds ==
    IF fn = "upload_prices" THEN "create_prices"
    ELSE IF fn = "main" /\ mp = "seller" THEN "download_stock"
    ELSE "create_stocks"

\* the totals a response of the Ozon listing can report: the code only
\* compares the total with the number of items retrieved so far, so one
\* total below that number, that number, and one above it
TotalsReported(t, cursor) ==
    LET count == Len(product_list) + Len(PageCodes(t, cursor, OzonPageLimit))
    IN  { count - 1, count, count + 1 } \cap Nat

\* seller.get_offer_ids with the failure of a page swallowed: the pager
\* returns the identifiers of the pages it has fetched
SellerGetOfferIdsPartial ==
    /\ mp = "seller" /\ pc = "get_offer_ids"
    /\ PagesRequested < MaxPages
    /\ \E status \in Statuses :
         /\ requests' = Append(requests, Req("get_product_list", target, page, <<>>, status))
         /\ IF status # "ok"
            THEN /\ offer_ids' = [k \in DOMAIN product_list |-> product_list[k].offer_id]
                 /\ ids_in' = offer_ids'
                 /\ page' = 0 /\ product_list' = <<>>
                 /\ pc' = AfterOfferIds
                 /\ responses' = IF PagesRequested = 0 THEN <<>> ELSE responses
                 /\ UNCHANGED << raised, caught >>
            ELSE \E total \in TotalsReported(target, page) :
                   LET codes     == PageCodes(target, page, OzonPageLimit)
                       some_prod == [items   |-> [k \in DOMAIN codes |-> [offer_id |-> codes[k]]],
                                     total   |-> total,
                                     last_id |-> Offset(page) + Len(codes) + 1]
                       products  == product_list \o some_prod.items
                   IN  /\ UNCHANGED << raised, caught >>
                       /\ responses' = Append(IF PagesRequested = 0 THEN <<>> ELSE responses,
                                              some_prod)
                       /\ IF some_prod.total = Len(products)
                          THEN /\ offer_ids' = [k \in DOMAIN products |-> products[k].offer_id]
                               /\ ids_in' = offer_ids'
                               /\ page' = 0 /\ product_list' = <<>>
                               /\ pc' = AfterOfferIds
                          ELSE /\ product_list' = products
                               /\ page' = some_prod.last_id
                               /\ UNCHANGED << pc, offer_ids, ids_in >>
    /\ UNCHANGED << fn, mp, watch_remnants, stocks, prices, lst, n, batches,
                    target, catalog, not_empty, next_batch >>

\* one turn of the loop of seller.get_offer_ids: a get_product_list
\* request, and the return of the function when total == len(product_list)
SellerGetOfferIds ==
    /\ mp = "seller" /\ pc = "get_offer_ids"
    /\ PagesRequested < MaxPages
    /\ \E status \in Statuses :
         /\ requests' = Append(requests, Req("get_product_list", target, page, <<>>, status))
         /\ IF status # "ok"
            THEN /\ Raise(status, fn = "main")
                 /\ responses' = IF PagesRequested = 0 THEN <<>> ELSE responses
                 /\ UNCHANGED << page, product_list, offer_ids, ids_in >>
            ELSE \E total \in TotalsReported(target, page) :
                   LET codes     == PageCodes(target, page, OzonPageLimit)
                       some_prod == [items   |-> [k \in DOMAIN codes |-> [offer_id |-> codes[k]]],
                                     total   |-> total,
                                     last_id |-> Offset(page) + Len(codes) + 1]
                       products  == product_list \o some_prod.items
                   IN  /\ UNCHANGED << raised, caught >>
                       /\ responses' = Append(IF PagesRequested = 0 THEN <<>> ELSE responses,
                                              some_prod)
                       /\ IF some_prod.total = Len(products)
                          THEN /\ offer_ids' = [k \in DOMAIN products |-> products[k].offer_id]
                               /\ ids_in' = offer_ids'
                               /\ page' = 0 /\ product_list' = <<>>
                               /\ pc' = AfterOfferIds
                          ELSE /\ product_list' = products
                               /\ page' = some_prod.last_id
                               /\ UNCHANGED << pc, offer_ids, ids_in >>
    /\ UNCHANGED << fn, mp, watch_remnants, stocks, prices, lst, n, batches,
                    target, catalog, not_empty, next_batch >>

\* market.get_offer_ids returning the items of the last page only: the
\* list is not accumulated over the pages
MarketGetOfferIdsLastPage ==
    /\ mp = "market" /\ pc = "get_offer_ids"
    /\ PagesRequested < MaxPages
    /\ \E status \in Statuses :
         /\ requests' = Append(requests, Req("get_product_list", target, page, <<>>, status))
         /\ IF status # "ok"
            THEN /\ Raise(status, fn = "main")
                 /\ responses' = IF PagesRequested = 0 THEN <<>> ELSE responses
                 /\ UNCHANGED << page, product_list, offer_ids, ids_in >>
            ELSE LET codes == PageCodes(target, page, MarketPageLimit)
                 IN  \E token \in {0, Offset(page) + Len(codes) + 1} :
                       LET some_prod ==
                               [offerMappingEntries |->
                                    [k \in DOMAIN codes |-> [offer |-> [shopSku |-> codes[k]]]],
                                paging |-> [nextPageToken |-> token]]
                           products == some_prod.offerMappingEntries
                       IN  /\ UNCHANGED << raised, caught >>
                           /\ responses' = Append(IF PagesRequested = 0 THEN <<>>
                                                  ELSE responses, some_prod)
                           /\ IF some_prod.paging.nextPageToken = 0
                              THEN /\ offer_ids' = [k \in DOMAIN products |->
                                                      products[k].offer.shopSku]
                                   /\ ids_in' = offer_ids'
                                   /\ page' = 0 /\ product_list' = <<>>
                                   /\ pc' = AfterOfferIds
                              ELSE /\ product_list' = products
                                   /\ page' = some_prod.paging.nextPageToken
                                   /\ UNCHANGED << pc, offer_ids, ids_in >>
    /\ UNCHANGED << fn, mp, watch_remnants, stocks, prices, lst, n, batches,
                    target, catalog, not_empty, next_batch >>

\* one turn of the loop of market.get_offer_ids: a get_product_list
\* request, and the return of the function when nextPageToken is empty
MarketGetOfferIds ==
    /\ mp = "market" /\ pc = "get_offer_ids"
    /\ PagesRequested < MaxPages
    /\ \E status \in Statuses :
         /\ requests' = Append(requests, Req("get_product_list", target, page, <<>>, status))
         /\ IF status # "ok"
            THEN /\ Raise(status, fn = "main")
                 /\ responses' = IF PagesRequested = 0 THEN <<>> ELSE responses
                 /\ UNCHANGED << page, product_list, offer_ids, ids_in >>
            ELSE LET codes == PageCodes(target, page, MarketPageLimit)
                 IN  \E token \in {0, Offset(page) + Len(codes) + 1} :
                       LET some_prod ==
                               [offerMappingEntries |->
                                    [k \in DOMAIN codes |-> [offer |-> [shopSku |-> codes[k]]]],
                                paging |-> [nextPageToken |-> token]]
                           products == product_list \o some_prod.offerMappingEntries
                       IN  /\ UNCHANGED << raised, caught >>
                           /\ responses' = Append(IF PagesRequested = 0 THEN <<>>
                                                  ELSE responses, some_prod)
                           /\ IF some_prod.paging.nextPageToken = 0
                              THEN /\ offer_ids' = [k \in DOMAIN products |->
                                                      products[k].offer.shopSku]
                                   /\ ids_in' = offer_ids'
                                   /\ page' = 0 /\ product_list' = <<>>
                                   /\ pc' = AfterOfferIds
                              ELSE /\ product_list' = products
                                   /\ page' = some_prod.paging.nextPageToken
                                   /\ UNCHANGED << pc, offer_ids, ids_in >>
    /\ UNCHANGED << fn, mp, watch_remnants, stocks, prices, lst, n, batches,
                    target, catalog, not_empty, next_batch >>

\* the statement that follows the loop over the stock batches
AfterStocks ==
    IF fn = "upload_stocks" THEN "not_empty"
    ELSE IF mp = "seller" THEN "create_prices"
    ELSE "upload_prices"

StockBatch == IF mp = "seller" THEN OzonStockBatch ELSE MarketStockBatch

\* stocks = create_stocks(...), and list(divide(stocks, ...)) of the for
\* statement that follows it
CreateStocks ==
    /\ fn \in {"main", "upload_stocks"} /\ pc = "create_stocks"
    /\ \E date \in Dates :
         LET r == IF mp = "seller" THEN seller_create_stocks(watch_remnants, offer_ids)
                  ELSE market_create_stocks(watch_remnants, offer_ids,
                                            IF target = "DBS" THEN "W_DBS" ELSE "W_FBS",
                                            date)
         IN  /\ offer_ids' = r.offer_ids
             /\ IF r.raised # "none"
                THEN /\ Raise(r.raised, fn = "main")
                     /\ UNCHANGED << stocks, lst, n, batches, next_batch >>
                ELSE /\ stocks' = r.ret
                     /\ lst' = r.ret /\ n' = StockBatch
                     /\ batches' = divide(r.ret, StockBatch)
                     /\ next_batch' = 1
                     /\ pc' = IF batches' = <<>> THEN AfterStocks ELSE "update_stocks"
                     /\ UNCHANGED << raised, caught >>
    /\ UNCHANGED << fn, mp, watch_remnants, ids_in, prices, target, catalog, page,
                    product_list, responses, not_empty, requests >>

\* UpdateStocks with the failure of a batch swallowed: the loop goes on
\* to the next batch
UpdateStocksGoOn ==
    /\ pc = "update_stocks"
    /\ \E status \in Statuses :
         /\ requests' = Append(requests,
                 Req("update_stocks", target, 0, batches[next_batch], status))
         /\ next_batch' = next_batch + 1
         /\ pc' = IF next_batch = Len(batches) THEN AfterStocks ELSE "update_stocks"
         /\ UNCHANGED << raised, caught >>
    /\ UNCHANGED << fn, mp, watch_remnants, offer_ids, ids_in, stocks, prices, lst, n,
                    batches, target, catalog, page, product_list, responses, not_empty >>

\* UpdateStocks leaving out every second batch
UpdateStocksSkip ==
    /\ pc = "update_stocks"
    /\ \E status \in Statuses :
         /\ requests' = Append(requests,
                 Req("update_stocks", target, 0, batches[next_batch], status))
         /\ IF status = "ok"
            THEN /\ next_batch' = next_batch + 2
                 /\ pc' = IF next_batch + 1 >= Len(batches) THEN AfterStocks
                          ELSE "update_stocks"
                 /\ UNCHANGED << raised, caught >>
            ELSE /\ Raise(status, fn = "main")
                 /\ UNCHANGED next_batch
    /\ UNCHANGED << fn, mp, watch_remnants, offer_ids, ids_in, stocks, prices, lst, n,
                    batches, target, catalog, page, product_list, responses, not_empty >>

\* update_stocks(some_stock, ...) for the next batch of the loop
UpdateStocks ==
    /\ pc = "update_stocks"
    /\ \E status \in Statuses :
         /\ requests' = Append(requests,
                 Req("update_stocks", target, 0, batches[next_batch], status))
         /\ IF status = "ok"
            THEN /\ next_batch' = next_batch + 1
                 /\ pc' = IF next_batch = Len(batches) THEN AfterStocks ELSE "update_stocks"
                 /\ UNCHANGED << raised, caught >>
            ELSE /\ Raise(status, fn = "main")
                 /\ UNCHANGED next_batch
    /\ UNCHANGED << fn, mp, watch_remnants, offer_ids, ids_in, stocks, prices, lst, n,
                    batches, target, catalog, page, product_list, responses, not_empty >>

\* not_empty = list(filter(...)) and the return of upload_stocks
ReturnStocks ==
    /\ fn = "upload_stocks" /\ pc = "not_empty"
    /\ not_empty' = SelectSeq(stocks, LAMBDA stock :
                        IF mp = "seller" THEN stock.stock # 0
                        ELSE stock.items[1].count # 0)
    /\ pc' = "returned"
    /\ UNCHANGED << fn, mp, watch_remnants, offer_ids, ids_in, stocks, prices, lst, n,
                    batches, raised, target, catalog, page, product_list, responses, next_batch,
                    requests, caught >>

\* upload_prices(watch_remnants, campaign_id, market_token) in market.main:
\* the call of the async function makes a coroutine object that is never
\* awaited, so no statement of upload_prices runs; main goes on to the DBS
\* campaign, or ends
UploadPricesCall ==
    /\ fn = "main" /\ mp = "market" /\ pc = "upload_prices"
    /\ pc' = IF target = "FBS" THEN "get_offer_ids" ELSE "done"
    /\ target' = "DBS"
    /\ UNCHANGED << fn, mp, watch_remnants, offer_ids, ids_in, stocks, prices, lst, n,
                    batches, raised, catalog, page, product_list, responses, not_empty, next_batch,
                    requests, caught >>

\* the statement that follows the loop over the price batches
AfterPrices == IF fn = "main" THEN "done" ELSE "returned"

PriceBatch ==
    IF mp = "market" THEN MarketPriceBatch
    ELSE IF fn = "main" THEN OzonMainPriceBatch
    ELSE OzonUploadPriceBatch

\* prices = create_prices(watch_remnants, offer_ids), and
\* list(divide(prices, ...)) of the for statement that follows it
CreatePrices ==
    /\ pc = "create_prices"
    /\ LET r == IF mp = "seller" THEN seller_create_prices(watch_remnants, offer_ids)
                ELSE market_create_prices(watch_remnants, offer_ids)
       IN  /\ offer_ids' = r.offer_ids
           /\ IF r.raised # "none"
              THEN /\ Raise(r.raised, fn = "main")
                   /\ UNCHANGED << prices, lst, n, batches, next_batch >>
              ELSE /\ prices' = r.ret
                   /\ lst' = r.ret /\ n' = PriceBatch
                   /\ batches' = divide(r.ret, PriceBatch)
                   /\ next_batch' = 1
                   /\ pc' = IF batches' = <<>> THEN AfterPrices ELSE "update_price"
                   /\ UNCHANGED << raised, caught >>
    /\ UNCHANGED << fn, mp, watch_remnants, ids_in, stocks, target, catalog, page,
                    product_list, responses, not_empty, requests >>

\* update_price(some_price, ...) for the next batch of the loop
UpdatePrice ==
    /\ pc = "update_price"
    /\ \E status \in Statuses :
         /\ requests' = Append(requests,
                 Req("update_price", target, 0, batches[next_batch], status))
         /\ IF status = "ok"
            THEN /\ next_batch' = next_batch + 1
                 /\ pc' = IF next_batch = Len(batches) THEN AfterPrices ELSE "update_price"
                 /\ UNCHANGED << raised, caught >>
            ELSE /\ Raise(status, fn = "main")
                 /\ UNCHANGED next_batch
    /\ UNCHANGED << fn, mp, watch_remnants, offer_ids, ids_in, stocks, prices, lst, n,
                    batches, target, catalog, page, product_list, responses, not_empty >>

Next ==
    \/ DownloadStock
    \/ SellerGetOfferIds
    \/ MarketGetOfferIds
    \/ CreateStocks
    \/ UpdateStocks
    \/ ReturnStocks
    \/ UploadPricesCall
    \/ CreatePrices
    \/ UpdatePrice

Spec == Init /\ [][Next]_vars

(***************************************************************************)
(* Vocabulary of the properties.                                           *)
(***************************************************************************)
\* the offer code and the quantity of a stock entry of either marketplace
StockCode(e) == IF mp = "seller" THEN e.offer_id ELSE e.sku
StockCount(e) == IF mp = "seller" THEN e.stock ELSE e.items[1].count
\* the offer code of a price entry of either marketplace
PriceCode(e) == IF mp = "seller" THEN e.offer_id ELSE e.id

Elems(s) == { s[i] : i \in DOMAIN s }
FeedCodes == { watch_remnants[i].code : i \in DOMAIN watch_remnants }

RECURSIVE Ascending(_)
\* the numbers of a finite set in increasing order
Ascending(S) ==
    IF S = {} THEN <<>>
    ELSE LET m == CHOOSE x \in S : \A y \in S : x <= y
         IN  <<m>> \o Ascending(S \ {m})

\* positions of the feed records that are the first to carry their code,
\* for the codes of the identifier list handed over
FirstMatches ==
    Ascending({ i \in DOMAIN watch_remnants :
                  /\ watch_remnants[i].code \in Elems(ids_in)
                  /\ \A j \in 1..(i - 1) :
                        watch_remnants[j].code # watch_remnants[i].code })

\* positions, in the identifier list handed over, of the identifiers no
\* feed record carries
Unmatched == Ascending({ i \in DOMAIN ids_in : ids_in[i] \notin FeedCodes })

StocksReturned == fn = "create_stocks" /\ pc = "returned"

\* C1: when create_stocks returns, its output has exactly one entry for
\* every identifier of the list it was given and no entry for any other
\* code, so it has as many entries as the list has identifiers.
C1_StocksCoverOfferIds ==
    StocksReturned =>
        /\ Len(stocks) = Len(ids_in)
        /\ \A i \in DOMAIN stocks : StockCode(stocks[i]) \in Elems(ids_in)
        /\ \A id \in Elems(ids_in) :
              Cardinality({ i \in DOMAIN stocks : StockCode(stocks[i]) = id }) = 1

\* C1 witness: a return on a feed that repeats a matched code and carries
\* a code outside the identifier list, with an identifier left unmatched.
C1_Witness ==
    /\ StocksReturned
    /\ \E i, j \in DOMAIN watch_remnants :
          /\ i < j
          /\ watch_remnants[i].code = watch_remnants[j].code
          /\ watch_remnants[i].code \in Elems(ids_in)
    /\ FeedCodes \ Elems(ids_in) # {}
    /\ Elems(ids_in) \ FeedCodes # {}

\* C2: the output of create_stocks is the matched identifiers in the order
\* of the first feed record carrying each, followed by the identifiers no
\* feed record carries, in their order in the list, each with quantity 0;
\* [A, B, C] with the feed [(A, ">10"), (B, "1")] gives
\* [(A, 100), (B, 0), (C, 0)].
C2_StocksOrder ==
    StocksReturned =>
        /\ [i \in DOMAIN stocks |-> StockCode(stocks[i])]
             = [k \in DOMAIN FirstMatches |-> watch_remnants[FirstMatches[k]].code]
               \o [k \in DOMAIN Unmatched |-> ids_in[Unmatched[k]]]
        /\ \A i \in DOMAIN stocks :
              i > Len(FirstMatches) => StockCount(stocks[i]) = 0
        /\ ( /\ ids_in = <<"A", "B", "C">>
             /\ Len(watch_remnants) = 2
             /\ watch_remnants[1].code = "A" /\ watch_remnants[1].qty = <<">", "1", "0">>
             /\ watch_remnants[2].code = "B" /\ watch_remnants[2].qty = <<"1">> )
           => [i \in DOMAIN stocks |-> <<StockCode(stocks[i]), StockCount(stocks[i])>>]
                = << <<"A", 100>>, <<"B", 0>>, <<"C", 0>> >>

\* C2 witness: a return with a matched identifier that comes later in the
\* identifier list than an unmatched one, after a feed whose matched
\* records are in the opposite order of the identifier list.
C2_Witness ==
    /\ StocksReturned
    /\ Len(FirstMatches) >= 2
    /\ Len(Unmatched) >= 1
    /\ ids_in[1] \notin FeedCodes
    /\ watch_remnants[FirstMatches[1]].code = ids_in[3]

(***************************************************************************)
(* What a quantity text denotes, written from the numeral of a number.     *)
(***************************************************************************)
DigitChar(d) ==
    CASE d = 0 -> "0" [] d = 1 -> "1" [] d = 2 -> "2" [] d = 3 -> "3"
      [] d = 4 -> "4" [] d = 5 -> "5" [] d = 6 -> "6" [] d = 7 -> "7"
      [] d = 8 -> "8" [] d = 9 -> "9"

RECURSIVE Numeral(_)
\* the decimal numeral of a natural number
Numeral(v) ==
    IF v < 10 THEN << DigitChar(v) >>
    ELSE Append(Numeral(v \div 10), DigitChar(v % 10))

RECURSIVE StripZeros(_)
\* a digit text without its leading zeros (the last digit stays)
StripZeros(text) ==
    IF Len(text) > 1 /\ text[1] = "0" THEN StripZeros(Tail(text)) ELSE text

\* an optional minus sign followed by at least one digit
IsIntegerText(q) ==
    LET body == IF q # <<>> /\ q[1] = "-" THEN Tail(q) ELSE q
    IN  body # <<>> /\ \A i \in DOMAIN body : body[i] \in Digits

\* the integer text q denotes the integer v
Denotes(q, v) ==
    LET neg  == q[1] = "-"
        body == IF neg THEN Tail(q) ELSE q
    IN  /\ StripZeros(body) = Numeral(IF v < 0 THEN 0 - v ELSE v)
        /\ v < 0 => neg
        /\ neg => v <= 0

\* the quantity the policy assigns to the text q
IsPolicyQuantity(q, v) ==
    IF q = <<">", "1", "0">> THEN v = 100
    ELSE IF q = <<"1">> THEN v = 0
    ELSE Denotes(q, v)

\* the text q has a quantity under the policy
HasQuantity(q) == q = <<">", "1", "0">> \/ IsIntegerText(q)

\* C3 as stated: create_stocks never raises, whatever quantity texts the
\* matched feed records carry.
C3_QuantityTotal == (fn = "create_stocks" /\ pc # "call") => pc = "returned"

\* C3 amended: the quantity mapping is exact where it is defined: a matched
\* record with ">10" gets 100, with "1" gets 0, with any other text that
\* denotes an integer gets that integer; and it is not total: as soon as a
\* matched record carries a text that denotes no integer (the empty text
\* of an empty cell), create_stocks raises ValueError and returns nothing.
C3_QuantityMapping ==
    (fn = "create_stocks" /\ pc # "call") =>
        IF \A k \in DOMAIN FirstMatches : HasQuantity(watch_remnants[FirstMatches[k]].qty)
        THEN /\ pc = "returned"
             /\ \A k \in DOMAIN FirstMatches :
                   /\ StockCode(stocks[k]) = watch_remnants[FirstMatches[k]].code
                   /\ IsPolicyQuantity(watch_remnants[FirstMatches[k]].qty,
                                       StockCount(stocks[k]))
        ELSE pc = "raised" /\ raised = "ValueError" /\ stocks = <<>>

\* C3 witness: a return where matched records carried ">10", "1" and "7".
C3_Witness ==
    /\ StocksReturned
    /\ Len(FirstMatches) = 3
    /\ { watch_remnants[i].qty : i \in DOMAIN watch_remnants }
         = { <<">", "1", "0">>, <<"1">>, <<"7">> }

PricesReturned == fn = "create_prices" /\ pc = "returned"

\* the feed records whose code is in the identifier list handed over
MatchedRecords == SelectSeq(watch_remnants, LAMBDA w : w.code \in Elems(ids_in))

\* C4: the output of create_prices has one entry per feed record whose
\* code is in the identifier list, in feed order, and nothing else: no
\* code outside the list, and no entry for an identifier without a record.
C4_PricesInnerJoin ==
    PricesReturned =>
        /\ [i \in DOMAIN prices |-> PriceCode(prices[i])]
             = [i \in DOMAIN MatchedRecords |-> MatchedRecords[i].code]
        /\ \A i \in DOMAIN prices : PriceCode(prices[i]) \in Elems(ids_in)
        /\ \A id \in Elems(ids_in) \ FeedCodes :
              \A i \in DOMAIN prices : PriceCode(prices[i]) # id

\* C4 witness: a return on a feed with a repeated matched code and a code
\* outside the identifier list, with an identifier no record carries.
C4_Witness ==
    /\ PricesReturned
    /\ Len(MatchedRecords) = 2
    /\ MatchedRecords[1].code = MatchedRecords[2].code
    /\ FeedCodes \ Elems(ids_in) # {}
    /\ Elems(ids_in) \ FeedCodes # {}

\* C5: after create_prices, returned or raised, the caller's identifier
\* list is the list that was handed over, element by element.
C5_PricesKeepOfferIds ==
    (fn = "create_prices" /\ pc # "call") => offer_ids = ids_in

\* C5 witness: create_prices raised after a matched record.
C5_Witness ==
    /\ fn = "create_prices" /\ pc = "raised"
    /\ Len(MatchedRecords) >= 2
    /\ Len(ids_in) >= 2

RECURSIVE Concat(_)
\* the concatenation of a sequence of sequences
Concat(ss) == IF ss = <<>> THEN <<>> ELSE Head(ss) \o Concat(Tail(ss))

\* C10: divide(L, n) for n > 0 yields non-empty slices whose concatenation
\* is L; all but the last have length n, the last between 1 and n; there
\* are ceil(len(L)/n) of them, none for the empty list; 9 items by 3 give
\* lengths [3, 3, 3] and 7 items give [3, 3, 1].
C10_DivideCovers ==
    (fn = "divide" /\ pc = "returned") =>
        /\ Concat(batches) = lst
        /\ \A k \in DOMAIN batches :
              /\ Len(batches[k]) >= 1
              /\ Len(batches[k]) <= n
              /\ k < Len(batches) => Len(batches[k]) = n
        /\ Len(batches) = (Len(lst) + n - 1) \div n
        /\ lst = <<>> => batches = <<>>
        /\ (Len(lst) = 9 /\ n = 3) =>
              [k \in DOMAIN batches |-> Len(batches[k])] = <<3, 3, 3>>
        /\ (Len(lst) = 7 /\ n = 3) =>
              [k \in DOMAIN batches |-> Len(batches[k])] = <<3, 3, 1>>

\* C10 witness: seven items split by three.
C10_Witness ==
    /\ fn = "divide" /\ pc = "returned"
    /\ Len(lst) = 7 /\ n = 3 /\ Len(batches) = 3

(***************************************************************************)
(* Properties of the entry points.                                         *)
(***************************************************************************)
RECURSIVE Submitted(_, _, _)
\* the entries of the batches that the requests reqs submitted to the
\* endpoint call of the account t, in the order of submission
Submitted(reqs, call, t) ==
    IF reqs = <<>> THEN <<>>
    ELSE LET r == Head(reqs)
         IN  (IF r.call = call /\ r.campaign = t THEN r.batch ELSE <<>>)
             \o Submitted(Tail(reqs), call, t)

\* main has ended and nothing failed on the way
MainDoneWithoutFailure ==
    /\ fn = "main" /\ pc = "done" /\ raised = "none"
    /\ \A k \in DOMAIN requests : requests[k].status = "ok"

\* C6: when seller.main ends without a failure, the price entries sent to
\* the price endpoint are the price payload of the fetched catalog: one
\* entry per feed record whose code the pager returned.
C6_OzonPricesSubmitted ==
    (MainDoneWithoutFailure /\ mp = "seller") =>
        Submitted(requests, "update_price", "OZON")
          = seller_create_prices(watch_remnants, ids_in).ret

\* the codes of the stock entries submitted for the account t
StockCodesSubmitted(t) ==
    { e.sku : e \in Elems(Submitted(requests, "update_stocks", t)) }

\* every price text of the feed has a digit before its first period
FeedPricesParse ==
    \A k \in DOMAIN watch_remnants : PyInt(price_conversion(watch_remnants[k].price)).ok

\* C7: when market.main ends without a failure, for FBS and for DBS the
\* price entries of the feed records whose code is in that campaign's
\* catalog have been sent to the price endpoint, after the campaign's last
\* stock batch.
C7_MarketPricesSubmitted ==
    (MainDoneWithoutFailure /\ mp = "market" /\ FeedPricesParse) =>
        \A t \in {"FBS", "DBS"} :
            /\ [k \in DOMAIN Submitted(requests, "update_price", t) |->
                    Submitted(requests, "update_price", t)[k].id]
                 = LET matched == SelectSeq(watch_remnants,
                                      LAMBDA w : w.code \in StockCodesSubmitted(t))
                   IN  [k \in DOMAIN matched |-> matched[k].code]
            /\ \A j, k \in DOMAIN requests :
                  ( /\ requests[j].call = "update_price" /\ requests[j].campaign = t
                    /\ requests[k].call = "update_stocks" /\ requests[k].campaign = t )
                  => k < j

\* C8: when market.main ends after a failed request of the FBS campaign,
\* the catalog of the DBS campaign has still been asked for.
C8_DbsAttemptedAfterFbsFailure ==
    ( /\ fn = "main" /\ mp = "market" /\ pc = "done"
      /\ \E k \in DOMAIN requests :
            requests[k].campaign = "FBS" /\ requests[k].status # "ok" )
    => \E k \in DOMAIN requests :
          requests[k].call = "get_product_list" /\ requests[k].campaign = "DBS"

\* C9: a failed batch submission is the last request of the run: the
\* exception leaves the loop at once (the entry point has ended), the
\* failed batch k was sent once, no batch after k and no other call
\* follows, and the k - 1 requests before it are the batches 1..k-1 of the
\* loop, each sent once and answered with success.
C9_BatchFailureAborts ==
    \A k \in DOMAIN requests :
        (requests[k].call \in {"update_stocks", "update_price"}
         /\ requests[k].status # "ok") =>
            /\ k = Len(requests)
            /\ pc \in {"done", "raised"}
            /\ raised = requests[k].status
            /\ next_batch \in DOMAIN batches
            /\ \A j \in 1..next_batch :
                  requests[k - next_batch + j]
                    = Req(requests[k].call, target, 0, batches[j],
                          IF j < next_batch THEN "ok" ELSE requests[k].status)

\* C9 witness: the second of three stock batches got a non-success
\* response.
C9_Witness ==
    /\ Len(batches) = 3 /\ next_batch = 2
    /\ requests # <<>>
    /\ requests[Len(requests)].call = "update_stocks"
    /\ requests[Len(requests)].status = "HTTPError"
    /\ pc \in {"done", "raised"}

(***************************************************************************)
(* The catalog pagers.                                                     *)
(***************************************************************************)
\* the get_product_list requests of the pager run of the current account
ListRequests ==
    SelectSeq(requests, LAMBDA r : r.call = "get_product_list" /\ r.campaign = target)

\* the pager of the current account has returned its list
PagerReturned ==
    /\ ListRequests # <<>>
    /\ ListRequests[Len(ListRequests)].status = "ok"
    /\ pc # "get_offer_ids"

\* the shopSku of the items of the market responses r[1..k], in page order
RECURSIVE MarketSkus(_, _)
MarketSkus(r, k) ==
    IF k = 0 THEN <<>>
    ELSE MarketSkus(r, k - 1)
           \o [i \in DOMAIN r[k].offerMappingEntries |->
                   r[k].offerMappingEntries[i].offer.shopSku]

\* C11: market.get_offer_ids sends its first request with the empty cursor
\* and every later request with the nextPageToken of the response before
\* it, which was not empty; while it runs the latest token is not empty;
\* it returns at the first response whose token is empty, and returns the
\* shopSku of all items of all pages it fetched, in page order.
C11_TokenPager ==
    (mp = "market" /\ ListRequests # <<>>) =>
        /\ ListRequests[1].cursor = 0
        /\ \A k \in 2..Len(ListRequests) :
              /\ ListRequests[k - 1].status = "ok"
              /\ responses[k - 1].paging.nextPageToken # 0
              /\ ListRequests[k].cursor = responses[k - 1].paging.nextPageToken
        /\ Len(responses) = IF ListRequests[Len(ListRequests)].status = "ok"
                            THEN Len(ListRequests) ELSE Len(ListRequests) - 1
        /\ (pc = "get_offer_ids") =>
              /\ Len(responses) = Len(ListRequests)
              /\ responses[Len(responses)].paging.nextPageToken # 0
        /\ PagerReturned =>
              /\ responses[Len(responses)].paging.nextPageToken = 0
              /\ ids_in = MarketSkus(responses, Len(responses))

\* C11 witness: the pager returned after two pages, the second with an
\* empty token, and the list has items of both pages.
C11_Witness ==
    /\ mp = "market" /\ PagerReturned
    /\ Len(responses) = 2
    /\ responses[1].offerMappingEntries # <<>>
    /\ responses[2].offerMappingEntries # <<>>
    /\ responses[2].paging.nextPageToken = 0
    /\ Len(ids_in) > Len(responses[2].offerMappingEntries)

\* the number of items of the seller responses r[1..k]
RECURSIVE SellerCount(_, _)
SellerCount(r, k) ==
    IF k = 0 THEN 0 ELSE SellerCount(r, k - 1) + Len(r[k].items)

\* C12: seller.get_offer_ids sends a further request only when the items
\* fetched so far are fewer than the total of the latest response: every
\* request after the first follows a response that left the cumulative
\* count below its total, and the pager is not still running after a
\* response whose total the cumulative count has reached or passed.
C12_CountedPager ==
    (mp = "seller" /\ ListRequests # <<>>) =>
        /\ \A k \in 2..Len(ListRequests) :
              SellerCount(responses, k - 1) < responses[k - 1].total
        /\ (pc = "get_offer_ids" /\ responses # <<>>) =>
              SellerCount(responses, Len(responses)) < responses[Len(responses)].total

\* C13: a failed get_product_list request is the last request of the run:
\* the exception leaves the pager and the entry point, so the page is not
\* asked for again and no other page follows; the pager hands no list to
\* its caller (the items of the earlier pages stay in its local list), and
\* no stock or price entry is built from them or sent for that account.
C13_PagerFailureAborts ==
    \A k \in DOMAIN requests :
        (requests[k].call = "get_product_list" /\ requests[k].status # "ok") =>
            /\ k = Len(requests)
            /\ requests[k].campaign = target
            /\ pc \in {"done", "raised"}
            /\ raised = requests[k].status
            /\ \A j \in DOMAIN requests :
                  requests[j].campaign = target => requests[j].call = "get_product_list"
            /\ target # "DBS" =>
                  offer_ids = <<>> /\ ids_in = <<>> /\ stocks = <<>> /\ prices = <<>>
            /\ target = "DBS" => Elems(ids_in) \subseteq Elems(catalog["FBS"])

\* C13 witness: the second page request of a pager got a non-success
\* response after the first page had brought items.
C13_Witness ==
    /\ Len(ListRequests) = 2
    /\ ListRequests[2].status = "HTTPError"
    /\ requests[Len(requests)] = ListRequests[2]
    /\ product_list # <<>>
    /\ pc \in {"done", "raised"}

(***************************************************************************)
(* Price texts.                                                            *)
(***************************************************************************)
\* the positions of the digits of a price text that no period precedes
LeadingDigitPositions(price) ==
    { i \in DOMAIN price :
        price[i] \in Digits /\ \A j \in 1..(i - 1) : price[j] # "." }

\* C14: when a matched feed record has no digit before the first period of
\* its price text, create_prices ends with an exception and builds no
\* payload; no payload entry of either marketplace has an empty price.
C14_DigitlessPriceRaises ==
    (fn = "create_prices" /\ pc # "call") =>
        /\ (\E k \in DOMAIN MatchedRecords :
               LeadingDigitPositions(MatchedRecords[k].price) = {})
           => (pc = "raised" /\ raised # "none" /\ prices = <<>>)
        /\ \A i \in DOMAIN prices :
              mp = "seller" => prices[i].price # <<>>

\* the digits of a price text that no period precedes, in text order
LeadingDigits(price) ==
    LET at == Ascending(LeadingDigitPositions(price))
    IN  [k \in DOMAIN at |-> price[at[k]]]

\* the currency of a price entry of either marketplace
Currency(e) == IF mp = "seller" THEN e.currency_code ELSE e.price.currencyId

\* the price entry e carries the integer the digit text d denotes: the
\* Ozon entry as a numeral, the Market entry as a number
CarriesInteger(e, d) ==
    /\ d # <<>>
    /\ IF mp = "seller" THEN e.price # <<>> /\ StripZeros(e.price) = StripZeros(d)
       ELSE Numeral(e.price.value) = StripZeros(d)

\* C15 as stated: every entry create_prices returns carries the integer of
\* the digits before the first period of its record's price text, and the
\* currency "RUB".
C15_PriceIntegerRub ==
    PricesReturned =>
        \A i \in DOMAIN prices :
            /\ i \in DOMAIN MatchedRecords
            /\ CarriesInteger(prices[i], LeadingDigits(MatchedRecords[i].price))
            /\ Currency(prices[i]) = "RUB"

\* C15: the entry seller.create_prices returns for a matched record carries
\* as price the text of the digits before the first period of the price
\* text, leading zeros kept and empty when there is none, and the currency
\* "RUB"; the entry market.create_prices returns carries the integer those
\* digits denote and the currency "RUR", and market.create_prices raises
\* ValueError exactly when a matched record has no such digit.
C15_PriceDigits ==
    (fn = "create_prices" /\ pc # "call") =>
        /\ pc = "raised" <=>
              /\ mp = "market"
              /\ \E k \in DOMAIN MatchedRecords :
                    LeadingDigits(MatchedRecords[k].price) = <<>>
        /\ pc = "raised" => raised = "ValueError"
        /\ pc = "returned" =>
              /\ Len(prices) = Len(MatchedRecords)
              /\ \A i \in DOMAIN prices :
                    LET d == LeadingDigits(MatchedRecords[i].price)
                    IN  IF mp = "seller"
                        THEN prices[i].price = d /\ Currency(prices[i]) = "RUB"
                        ELSE /\ CarriesInteger(prices[i], d)
                             /\ Currency(prices[i]) = "RUR"

\* C15 witness: market.create_prices returned the entry of a record priced
\* "24'570.00 r." with the value 24570.
C15_Witness ==
    /\ PricesReturned /\ mp = "market"
    /\ Len(prices) = 1
    /\ MatchedRecords[1].price
         = <<"2", "4", "'", "5", "7", "0", ".", "0", "0", " ", "r", ".">>
    /\ prices[1].price.value = 24570

(***************************************************************************)
(* The stock phase.                                                        *)
(***************************************************************************)
\* the update_stocks requests sent for the current account
StockRequests ==
    SelectSeq(requests, LAMBDA r : r.call = "update_stocks" /\ r.campaign = target)

\* the loop over the stock batches of the current account has just ended
StockPhaseDone == fn \in {"main", "upload_stocks"} /\ pc = AfterStocks

\* C16: while the stock loop runs, the batches sent so far are, in order,
\* the leading entries of the stock payload, every one of them answered
\* with success before the next was sent; when the loop has ended without
\* a failure, each batch holds between one entry and the endpoint's limit,
\* all were answered with success, and their concatenation is the stock
\* payload, so every stock entry was sent exactly once.
C16_StockBatchesInOrder ==
    (fn \in {"main", "upload_stocks"} /\ (pc = "update_stocks" \/ StockPhaseDone)) =>
        /\ \A k \in DOMAIN StockRequests :
              /\ StockRequests[k].status = "ok"
              /\ Len(StockRequests[k].batch) \in 1..StockBatch
              /\ \E j \in DOMAIN requests :
                    /\ requests[j] = StockRequests[k]
                    /\ k > 1 => j > 1 /\ requests[j - 1] = StockRequests[k - 1]
        /\ LET sent == Submitted(requests, "update_stocks", target)
           IN  /\ Len(sent) <= Len(stocks)
               /\ sent = SubSeq(stocks, 1, Len(sent))
               /\ pc = "update_stocks" => Len(sent) < Len(stocks)
               /\ StockPhaseDone => sent = stocks

\* C16 witness: the stock loop of a main ended after three batches that
\* carried a payload of five entries.
C16_Witness ==
    /\ fn = "main" /\ StockPhaseDone
    /\ Len(StockRequests) = 3
    /\ Len(stocks) = 5
    /\ \A k \in DOMAIN requests : requests[k].status = "ok"

\* C17: when create_stocks returns, the list its caller passed holds the
\* identifiers no feed record carries, in the order they had, and none of
\* the matched ones; it is the list that was passed only when no feed
\* record matched.
C17_CallerListConsumed ==
    StocksReturned =>
        /\ offer_ids = [k \in DOMAIN Unmatched |-> ids_in[Unmatched[k]]]
        /\ Elems(offer_ids) \cap FeedCodes = {}
        /\ Len(offer_ids) = Len(ids_in) - Len(FirstMatches)
        /\ offer_ids = ids_in <=> FirstMatches = <<>>

\* C17 witness: of three identifiers the middle one was matched, and the
\* caller's list is left with the first and the third.
C17_Witness ==
    /\ StocksReturned
    /\ Len(ids_in) = 3
    /\ Unmatched = <<1, 3>>
    /\ offer_ids = << ids_in[1], ids_in[3] >>
    /\ Len(stocks) = 3

====
